---- MODULE Spec2Model ----
(***************************************************************************)
(* Model of the agent orchestration pipeline of                            *)
(* "Test Agent Orchestration for Cloud Architecture Planning.py":          *)
(* ResearchAgent.query, the five agents' run methods and Orchestrator.     *)
(*                                                                         *)
(* Python values are modelled as follows.  A dict is a TLA+ function with  *)
(* a set of strings as its domain, a list is a sequence, a str is a        *)
(* string.  A value whose Python type the code tests (isinstance) or on    *)
(* which it depends (str has no .get) is tagged: PyStr(s) or PyDict(d).    *)
(* A dict that keeps insertion order and is read in that order (results)   *)
(* is a sequence of [name, output] items.  The float 9.1 is kept in tenths.*)
(***************************************************************************)
EXTENDS Integers, Sequences, FiniteSets, TLC

VARIABLES
    agents,     \* Orchestrator.agents, the configured stage sequence
    pc,         \* "none" (no Orchestrator yet), "idle", "running", "returned", "raised"; "main_raised": __main__ ended by an exception
    problem,    \* argument of the current Orchestrator.run call
    i,          \* position of the for loop of Orchestrator.run (1-based)
    results,    \* local results of Orchestrator.run (insertion-ordered dict)
    context,    \* local context of Orchestrator.run
    trace,      \* history: one [name, input, output] per stage invocation of this run
    queryLog,   \* history: the ResearchAgent.query calls [topic, result] of the current operation
    call,       \* last direct call of an agent method: [agent, input, output]
    user_data,  \* the ids of the committed rows of table user_data
    webhook_data,   \* argument of the last process_webhook_data call
    hook_result,    \* what the last process_webhook_data call returned
    deletes,    \* history: the DELETE statements (row ids) the last call executed
    posts,      \* history: the bodies of the requests.post calls of the last call
    before      \* history: user_data when the last call started

hookVars == <<user_data, webhook_data, hook_result, deletes, posts, before>>

vars == <<agents, pc, problem, i, results, context, trace, queryLog, call, hookVars>>

(***************************************************************************)
(* Bounds                                                                  *)
(***************************************************************************)
MaxStages == 4
MaxList == 2
MaxQueries == 3
MaxUserId == 2

(***************************************************************************)
(* Python helpers                                                          *)
(***************************************************************************)
PyStr(s) == [type |-> "str", value |-> s]
PyDict(d) == [type |-> "dict", value |-> d]

EmptyDict == [k \in {} |-> 0]

\* x in lst, for a list lst
In(x, lst) == \E j \in 1..Len(lst) : lst[j] = x

\* d.get(key, default)
Get(d, key, default) == IF key \in DOMAIN d THEN d[key] ELSE default

\* ", ".join(lst)
RECURSIVE Join(_)
Join(lst) ==
    IF lst = <<>> THEN ""
    ELSE IF Len(lst) = 1 THEN lst[1]
    ELSE lst[1] \o ", " \o Join(Tail(lst))

\* f"{score}" for a float with one decimal, kept in tenths
FormatTenths(t) == ToString(t \div 10) \o "." \o ToString(t % 10)

(***************************************************************************)
(* ResearchAgent                                                           *)
(***************************************************************************)
simulated_results ==
    [t \in {"PCI-DSS", "GDPR", "Serverless", "Containers"} |->
        CASE t = "PCI-DSS" -> "Found compliance guidelines from AWS and GCP docs."
          [] t = "GDPR" -> "Retrieved GDPR checklist from official EU documentation."
          [] t = "Serverless" -> "Compared AWS Lambda vs Cloud Run performance for low-traffic apps."
          [] t = "Containers" -> "Fetched ECS vs GKE vs AKS comparison benchmark."]

\* mutant of query: dict.get without the fallback default
query_NoFallback(topic) ==
    IF topic \in DOMAIN simulated_results THEN simulated_results[topic] ELSE ""

query(topic) ==
    IF topic \in DOMAIN simulated_results
    THEN simulated_results[topic]
    ELSE "No relevant info found for '" \o topic \o "'."

\* one entry of the lookup history: researcher.query(topic) was called and returned
Lookup(topic) == [topic |-> topic, result |-> query(topic)]

(***************************************************************************)
(* The agents' run methods.  Each returns the AgentResponse (name, output) *)
(* and, as queries, the lookups it issued, in order.                       *)
(***************************************************************************)
RequirementsAgent_run(p) ==
    [name |-> "RequirementsAgent",
     output |-> [users_per_day |-> 1000,
                 features |-> <<"catalog", "cart", "payment", "admin_dashboard">>,
                 data_types |-> <<"user_profiles", "payment_info", "inventory">>,
                 constraints |-> <<"scalable", "secure_payments", "low_ops">>],
     queries |-> <<>>]

security_controls_baseline ==
    <<"Encryption at rest/in transit", "Least-privilege IAM", "WAF, audit logging">>

\* mutant of ComplianceAgent_run: compliance instead of compliance or ["None"]
ComplianceAgent_run_NoSentinel(requirements) ==
    LET data_types == Get(requirements, "data_types", <<>>)
        payment == In("payment_info", data_types)
        profiles == In("user_profiles", data_types)
        compliance == (IF payment THEN <<"PCI-DSS">> ELSE <<>>)
                      \o (IF profiles THEN <<"GDPR">> ELSE <<>>)
        notes == (IF payment THEN <<query("PCI-DSS")>> ELSE <<>>)
                 \o (IF profiles THEN <<query("GDPR")>> ELSE <<>>)
    IN  [name |-> "ComplianceAgent",
         output |-> [required_compliance |-> compliance,
                     security_controls |-> security_controls_baseline,
                     research_notes |-> notes],
         queries |-> (IF payment THEN <<Lookup("PCI-DSS")>> ELSE <<>>)
                     \o (IF profiles THEN <<Lookup("GDPR")>> ELSE <<>>)]

\* mutant of ComplianceAgent_run: the second test is an elif
ComplianceAgent_run_Elif(requirements) ==
    LET data_types == Get(requirements, "data_types", <<>>)
        payment == In("payment_info", data_types)
        profiles == ~payment /\ In("user_profiles", data_types)
        compliance == (IF payment THEN <<"PCI-DSS">> ELSE <<>>)
                      \o (IF profiles THEN <<"GDPR">> ELSE <<>>)
        notes == (IF payment THEN <<query("PCI-DSS")>> ELSE <<>>)
                 \o (IF profiles THEN <<query("GDPR")>> ELSE <<>>)
    IN  [name |-> "ComplianceAgent",
         output |-> [required_compliance |-> IF compliance = <<>> THEN <<"None">> ELSE compliance,
                     security_controls |-> security_controls_baseline,
                     research_notes |-> notes],
         queries |-> (IF payment THEN <<Lookup("PCI-DSS")>> ELSE <<>>)
                     \o (IF profiles THEN <<Lookup("GDPR")>> ELSE <<>>)]

\* compliance or ["None"] is the list when it is not empty, else ["None"]
ComplianceAgent_run(requirements) ==
    LET data_types == Get(requirements, "data_types", <<>>)
        payment == In("payment_info", data_types)
        profiles == In("user_profiles", data_types)
        compliance == (IF payment THEN <<"PCI-DSS">> ELSE <<>>)
                      \o (IF profiles THEN <<"GDPR">> ELSE <<>>)
        notes == (IF payment THEN <<query("PCI-DSS")>> ELSE <<>>)
                 \o (IF profiles THEN <<query("GDPR")>> ELSE <<>>)
    IN  [name |-> "ComplianceAgent",
         output |-> [required_compliance |-> IF compliance = <<>> THEN <<"None">> ELSE compliance,
                     security_controls |-> security_controls_baseline,
                     research_notes |-> notes],
         queries |-> (IF payment THEN <<Lookup("PCI-DSS")>> ELSE <<>>)
                     \o (IF profiles THEN <<Lookup("GDPR")>> ELSE <<>>)]

\* mutant of ArchitectureAgent_run: the pattern test is inverted
ArchitectureAgent_run_Inverted(ctx) ==
    LET base == Get(ctx, "constraints", <<>>)
        arch_type == IF In("low_ops", base) THEN "Containers" ELSE "Serverless"
        reference == Lookup(arch_type)
    IN  [name |-> "ArchitectureAgent",
         output |-> [pattern |-> arch_type,
                     compute |-> IF arch_type = "Serverless"
                                 THEN "Serverless Functions" ELSE "Container Service",
                     database |-> "Managed PostgreSQL",
                     storage |-> "Object Storage",
                     network |-> "API Gateway + CDN",
                     security |-> Get(ctx, "security_controls", <<>>),
                     research_reference |-> reference.result],
         queries |-> <<reference>>]

ArchitectureAgent_run(ctx) ==
    LET base == Get(ctx, "constraints", <<>>)
        arch_type == IF In("low_ops", base) THEN "Serverless" ELSE "Containers"
        reference == Lookup(arch_type)
    IN  [name |-> "ArchitectureAgent",
         output |-> [pattern |-> arch_type,
                     compute |-> IF arch_type = "Serverless"
                                 THEN "Serverless Functions" ELSE "Container Service",
                     database |-> "Managed PostgreSQL",
                     storage |-> "Object Storage",
                     network |-> "API Gateway + CDN",
                     security |-> Get(ctx, "security_controls", <<>>),
                     research_reference |-> reference.result],
         queries |-> <<reference>>]

\* the en dash of the source's estimate string is written as a hyphen
CostEstimationAgent_run(architecture) ==
    [name |-> "CostEstimationAgent",
     output |-> [monthly_estimate_usd |-> "~$120-150",
                 tier |-> "low-cost, scalable",
                 optimizations |-> <<"CDN caching for static assets",
                                     "Auto-suspend idle dev DBs",
                                     "Serverless pay-per-use model">>],
     queries |-> <<>>]

\* overall_score is 9.1, kept in tenths
ReviewAgent_run(ctx) ==
    LET risks == <<"Cold starts (serverless)", "Vendor lock-in (managed DB)">>
        score == 91
    IN  [name |-> "ReviewAgent",
         output |-> [overall_score |-> score,
                     risks |-> risks,
                     summary |-> "Validated architecture with score " \o FormatTenths(score)
                                 \o "/10. Risks: " \o Join(risks)],
         queries |-> <<>>]

AgentClasses ==
    {"RequirementsAgent", "ComplianceAgent", "ArchitectureAgent",
     "CostEstimationAgent", "ReviewAgent"}

(***************************************************************************)
(* Orchestrator                                                            *)
(***************************************************************************)
\* agent.run(context) raises: ComplianceAgent and ArchitectureAgent call
\* .get on their argument, which a str does not have (AttributeError); the
\* other three never touch their argument.
Raises(agent, ctx) ==
    agent \in {"ComplianceAgent", "ArchitectureAgent"} /\ ctx.type # "dict"

\* agent.run(context), when it does not raise
Invoke(agent, ctx) ==
    CASE agent = "RequirementsAgent" -> RequirementsAgent_run(ctx.value)
      [] agent = "ComplianceAgent" -> ComplianceAgent_run(ctx.value)
      [] agent = "ArchitectureAgent" -> ArchitectureAgent_run(ctx.value)
      [] agent = "CostEstimationAgent" -> CostEstimationAgent_run(ctx.value)
      [] agent = "ReviewAgent" -> ReviewAgent_run(ctx.value)

\* results[name] = output on an insertion-ordered dict: an existing key
\* keeps its place and takes the new value, a new key goes last
DictSet(d, name, output) ==
    IF \E j \in 1..Len(d) : d[j].name = name
    THEN [j \in 1..Len(d) |-> IF d[j].name = name
                              THEN [name |-> name, output |-> output] ELSE d[j]]
    ELSE Append(d, [name |-> name, output |-> output])

\* mutant of DictMerge: left-biased, {**b, **a}
DictMerge_LeftBiased(a, b) ==
    [k \in DOMAIN a \cup DOMAIN b |-> IF k \in DOMAIN a THEN a[k] ELSE b[k]]

\* {**a, **b}
DictMerge(a, b) ==
    [k \in DOMAIN a \cup DOMAIN b |-> IF k \in DOMAIN b THEN b[k] ELSE a[k]]

\* mutant of NextContext: the context is replaced by the stage's output every time
NextContext_Replace(ctx, output) == PyDict(output)

\* the context after a stage: merged when it is a dict, else the stage's output
NextContext(ctx, output) ==
    IF ctx.type = "dict" THEN PyDict(DictMerge(ctx.value, output)) ELSE PyDict(output)

\* mutant of InitialContext: the context of the previous run is kept
InitialContext_Stale(p) == IF context.type = "dict" THEN context ELSE PyStr(p)

\* context: Any = problem
InitialContext(p) == PyStr(p)

StageSequences == UNION {[1..n -> AgentClasses] : n \in 0..MaxStages}

Problems == {"", "Design a cloud architecture for an online store"}

NoCall == [agent |-> "none", input |-> PyStr(""), output |-> EmptyDict]

NoResult == [status |-> "none"]

\* no process_webhook_data call yet, the table empty
HookInit ==
    /\ user_data = {}
    /\ webhook_data = PyStr("")
    /\ hook_result = NoResult
    /\ deletes = <<>>
    /\ posts = <<>>
    /\ before = {}

Init ==
    /\ HookInit
    /\ agents = <<>>
    /\ pc = "none"
    /\ problem = ""
    /\ i = 1
    /\ results = <<>>
    /\ context = PyStr("")
    /\ trace = <<>>
    /\ queryLog = <<>>
    /\ call = NoCall

\* Orchestrator(agents): the list is stored as given
Construct(seq) ==
    /\ pc = "none"
    /\ agents' = seq
    /\ pc' = "idle"
    /\ UNCHANGED <<problem, i, results, context, trace, queryLog, call, hookVars>>

\* the number of arguments a class's constructor takes: ComplianceAgent and
\* ArchitectureAgent define __init__(self, researcher), the other agent
\* classes define no __init__ and take none
InitParams(cls) == IF cls \in {"ComplianceAgent", "ArchitectureAgent"} THEN 1 ELSE 0

\* Cls(args) raises TypeError when the number of arguments is not the constructor's
ConstructorRaises(expr) == expr.nargs # InitParams(expr.cls)

\* the list expression of __main__: each agent class with the number of
\* arguments it is called with (research_agent or nothing)
MainAgentExprs ==
    <<[cls |-> "RequirementsAgent", nargs |-> 0],
      [cls |-> "ComplianceAgent", nargs |-> 1],
      [cls |-> "ArchitectureAgent", nargs |-> 1],
      [cls |-> "CostEstimationAgent", nargs |-> 1],
      [cls |-> "ReviewAgent", nargs |-> 1]>>

\* __main__ up to orchestrator = Orchestrator([...]): the agents are
\* constructed in order; a constructor that raises ends the script, and no
\* Orchestrator exists
Main ==
    /\ pc = "none"
    /\ IF \E k \in 1..Len(MainAgentExprs) : ConstructorRaises(MainAgentExprs[k])
       THEN /\ pc' = "main_raised"
            /\ UNCHANGED agents
       ELSE /\ agents' = [k \in 1..Len(MainAgentExprs) |-> MainAgentExprs[k].cls]
            /\ pc' = "idle"
    /\ UNCHANGED <<problem, i, results, context, trace, queryLog, call, hookVars>>

\* entry of Orchestrator.run(problem), up to the for loop
RunStart(p) ==
    /\ pc \in {"idle", "returned", "raised"}
    /\ problem' = p
    /\ results' = <<>>
    /\ context' = InitialContext(p)
    /\ i' = 1
    /\ trace' = <<>>
    /\ queryLog' = <<>>
    /\ pc' = "running"
    /\ UNCHANGED <<agents, call, hookVars>>

\* one iteration of the for loop, the agent returning a response
RunStep ==
    /\ pc = "running"
    /\ i <= Len(agents)
    /\ ~Raises(agents[i], context)
    /\ LET response == Invoke(agents[i], context)
       IN  /\ results' = DictSet(results, response.name, response.output)
           /\ context' = NextContext(context, response.output)
           /\ trace' = Append(trace, [name |-> response.name, input |-> context,
                                      output |-> response.output])
           /\ queryLog' = queryLog \o response.queries
    /\ i' = i + 1
    /\ UNCHANGED <<agents, pc, problem, call, hookVars>>

\* one iteration of the for loop, the agent raising: run has no handler,
\* the exception leaves run and nothing is returned
RunStepRaise ==
    /\ pc = "running"
    /\ i <= Len(agents)
    /\ Raises(agents[i], context)
    /\ pc' = "raised"
    /\ UNCHANGED <<agents, problem, i, results, context, trace, queryLog, call, hookVars>>

\* the loop is over: return results
RunReturn ==
    /\ pc = "running"
    /\ i > Len(agents)
    /\ pc' = "returned"
    /\ UNCHANGED <<agents, problem, i, results, context, trace, queryLog, call, hookVars>>

Next ==
    \/ \E seq \in StageSequences : Construct(seq)
    \/ Main
    \/ \E p \in Problems : RunStart(p)
    \/ RunStep
    \/ RunStepRaise
    \/ RunReturn

Spec == Init /\ [][Next]_vars

(***************************************************************************)
(* Direct calls of the agents' methods, on a context drawn from a bounded  *)
(* set.  An agent's run starts the lookup history, a direct query extends  *)
(* it.                                                                     *)
(***************************************************************************)
DataCategories == {"payment_info", "user_profiles", "inventory"}
ConstraintTokens == {"low_ops", "scalable"}
ControlLists == {<<>>, <<"WAF, audit logging">>}
Topics == DOMAIN simulated_results \cup {"", "Kubernetes"}

Lists(S) == UNION {[1..n -> S] : n \in 0..MaxList}

\* a field of a dict that may be absent
Optional(S) == {[present |-> FALSE, val |-> <<>>]} \cup {[present |-> TRUE, val |-> v] : v \in S}

MakeContext(dt, cs, sc) ==
    LET keys == (IF dt.present THEN {"data_types"} ELSE {})
                \cup (IF cs.present THEN {"constraints"} ELSE {})
                \cup (IF sc.present THEN {"security_controls"} ELSE {})
    IN  [k \in keys |-> CASE k = "data_types" -> dt.val
                          [] k = "constraints" -> cs.val
                          [] k = "security_controls" -> sc.val]

DirectContexts ==
    {MakeContext(dt, cs, sc) : dt \in Optional(Lists(DataCategories)),
                               cs \in Optional(Lists(ConstraintTokens)),
                               sc \in Optional(ControlLists)}

\* the context of the direct call is drawn at the start
InitAgents ==
    /\ HookInit
    /\ agents = <<>>
    /\ pc = "none"
    /\ problem = ""
    /\ i = 1
    /\ results = <<>>
    /\ context = PyStr("")
    /\ trace = <<>>
    /\ queryLog = <<>>
    /\ \E ctx \in DirectContexts :
          call = [agent |-> "none", input |-> PyDict(ctx), output |-> EmptyDict]

\* ComplianceAgent(researcher).run(ctx), ctx the drawn context
CallCompliance ==
    /\ call.agent = "none"
    /\ LET response == ComplianceAgent_run(call.input.value)
       IN  /\ call' = [agent |-> "ComplianceAgent", input |-> call.input,
                       output |-> response.output]
           /\ queryLog' = response.queries
    /\ UNCHANGED <<agents, pc, problem, i, results, context, trace, hookVars>>

\* ArchitectureAgent(researcher).run(ctx), ctx the drawn context
CallArchitecture ==
    /\ call.agent = "none"
    /\ LET response == ArchitectureAgent_run(call.input.value)
       IN  /\ call' = [agent |-> "ArchitectureAgent", input |-> call.input,
                       output |-> response.output]
           /\ queryLog' = response.queries
    /\ UNCHANGED <<agents, pc, problem, i, results, context, trace, hookVars>>

\* ReviewAgent().run(ctx), ctx the drawn context
CallReview ==
    /\ call.agent = "none"
    /\ LET response == ReviewAgent_run(call.input.value)
       IN  /\ call' = [agent |-> "ReviewAgent", input |-> call.input,
                       output |-> response.output]
           /\ queryLog' = response.queries
    /\ UNCHANGED <<agents, pc, problem, i, results, context, trace, hookVars>>

\* researcher.query(topic)
DirectQuery(topic) ==
    /\ Len(queryLog) < MaxQueries
    /\ call' = [agent |-> "ResearchAgent", input |-> PyStr(topic),
                output |-> PyStr(query(topic))]
    /\ queryLog' = Append(queryLog, Lookup(topic))
    /\ UNCHANGED <<agents, pc, problem, i, results, context, trace, hookVars>>

NextAgents ==
    \/ CallCompliance
    \/ CallArchitecture
    \/ CallReview
    \/ \E topic \in Topics : DirectQuery(topic)

SpecAgents == InitAgents /\ [][NextAgents]_vars

(***************************************************************************)
(* SecureDataProcessor.process_webhook_data                                *)
(* (Fixed_Security_Issue_Python_code_unmarked.py).  The table user_data is *)
(* the set of the ids of its committed rows.  What the database and the    *)
(* webhook endpoint do is drawn with each call.                            *)
(***************************************************************************)
PyInt(n) == [type |-> "int", value |-> n]

UserIds == 1..MaxUserId

\* user_id values: ints around the ids of the table, and a str
UserIdValues == {PyInt(n) : n \in -1..(MaxUserId + 1)} \cup {PyStr("1")}

ActionValues == {"create_user", "update_user", "delete_user", "drop_table"}

\* webhook payloads: a value that is no dict, and dicts with or without each key
WebhookInputs ==
    {PyStr("not a mapping")}
    \cup {PyDict([k \in K |-> IF k = "user_id" THEN u ELSE PyStr(a)]) :
             K \in SUBSET {"user_id", "action"}, u \in UserIdValues, a \in ActionValues}

\* the database during a call: fine, connect_to_database returns (None, None),
\* cursor.execute raises, or conn.commit raises
DbOutcomes == {"ok", "connect_fail", "execute_error", "commit_error"}

\* requests.post: raises (timeout, connection error), or returns a response
PostOutcomes ==
    {[raises |-> TRUE, status_code |-> 0],
     [raises |-> FALSE, status_code |-> 200],
     [raises |-> FALSE, status_code |-> 500]}

allowed_actions == <<"create_user", "update_user", "delete_user">>

\* mutant of validate_webhook_data: the action is not checked
validate_webhook_data_NoActionCheck(data) ==
    IF data.type # "dict" THEN FALSE
    ELSE IF "user_id" \notin DOMAIN data.value \/ "action" \notin DOMAIN data.value THEN FALSE
    ELSE LET user_id == data.value["user_id"]
         IN  IF user_id.type # "int" \/ user_id.value <= 0 THEN FALSE
             ELSE TRUE

validate_webhook_data(data) ==
    IF data.type # "dict" THEN FALSE
    ELSE IF "user_id" \notin DOMAIN data.value \/ "action" \notin DOMAIN data.value THEN FALSE
    ELSE LET user_id == data.value["user_id"]
             action == data.value["action"]
         IN  IF user_id.type # "int" \/ user_id.value <= 0 THEN FALSE
             ELSE IF ~In(action.value, allowed_actions) THEN FALSE
             ELSE TRUE

ErrorResult(message) == [status |-> "error", message |-> message]

\* process_webhook_data(data) on table, with the database and the endpoint
\* behaving as db and post: the result returned, the table afterwards, the
\* DELETE statements executed and the POSTs issued
process_webhook_data(data, table, db, post) ==
    IF ~validate_webhook_data(data)
    THEN [result |-> ErrorResult("Invalid data"), table |-> table,
          deletes |-> <<>>, posts |-> <<>>]
    ELSE LET user_id == data.value["user_id"].value
             delete == data.value["action"].value = "delete_user"
         IN  IF delete /\ db = "connect_fail"
             THEN [result |-> ErrorResult("Database error"), table |-> table,
                   deletes |-> <<>>, posts |-> <<>>]
             ELSE IF delete /\ db = "execute_error"
             THEN [result |-> ErrorResult("Processing failed"), table |-> table,
                   deletes |-> <<>>, posts |-> <<>>]
             ELSE IF delete /\ db = "commit_error"
             \* the DELETE ran in a transaction that was never committed
             THEN [result |-> ErrorResult("Processing failed"), table |-> table,
                   deletes |-> <<user_id>>, posts |-> <<>>]
             ELSE LET committed == IF delete THEN table \ {user_id} ELSE table
                      executed == IF delete THEN <<user_id>> ELSE <<>>
                  IN  IF post.raises
                      THEN [result |-> ErrorResult("Processing failed"),
                            table |-> committed,
                            deletes |-> executed, posts |-> <<data.value>>]
                      ELSE [result |-> [status |-> "processed",
                                        webhook_response |-> post.status_code],
                            table |-> committed,
                            deletes |-> executed, posts |-> <<data.value>>]

\* the table holds any rows at the start
InitWebhook ==
    /\ agents = <<>>
    /\ pc = "none"
    /\ problem = ""
    /\ i = 1
    /\ results = <<>>
    /\ context = PyStr("")
    /\ trace = <<>>
    /\ queryLog = <<>>
    /\ call = NoCall
    /\ user_data \in SUBSET UserIds
    /\ webhook_data = PyStr("")
    /\ hook_result = NoResult
    /\ deletes = <<>>
    /\ posts = <<>>
    /\ before = user_data

\* one call processor.process_webhook_data(data)
ProcessWebhook(data, db, post) ==
    /\ LET r == process_webhook_data(data, user_data, db, post)
       IN  /\ hook_result' = r.result
           /\ user_data' = r.table
           /\ deletes' = r.deletes
           /\ posts' = r.posts
    /\ webhook_data' = data
    /\ before' = user_data
    /\ UNCHANGED <<agents, pc, problem, i, results, context, trace, queryLog, call>>

NextWebhook ==
    \E data \in WebhookInputs : \E db \in DbOutcomes : \E post \in PostOutcomes :
        ProcessWebhook(data, db, post)

SpecWebhook == InitWebhook /\ [][NextWebhook]_vars

(***************************************************************************)
(* Properties of Orchestrator.run                                          *)
(***************************************************************************)
\* the keys of a context: those of the dict, none for a str
Keys(ctx) == IF ctx.type = "dict" THEN DOMAIN ctx.value ELSE {}

\* the keys produced by the first n stage invocations of the run
ProducedBy(n) == UNION {DOMAIN trace[m].output : m \in 1..n}

\* key x is first introduced by the j-th stage invocation of the run
FirstIntroducedBy(x, j) ==
    /\ x \in DOMAIN trace[j].output
    /\ x \notin ProducedBy(j - 1)

\* the last stage invocation whose output sets key x
LastSetter(x) ==
    CHOOSE m \in 1..Len(trace) :
        /\ x \in DOMAIN trace[m].output
        /\ \A n \in (m + 1)..Len(trace) : x \notin DOMAIN trace[n].output

\* C1: for a non-empty problem, the mapping run returns has exactly one
\* entry per configured stage, keyed by the stage's name, in configured order.
C1_OneEntryPerStage ==
    (pc = "returned" /\ problem # "") =>
        /\ Len(results) = Len(agents)
        /\ \A j \in 1..Len(agents) : results[j].name = agents[j]

\* C2: the context passed to a stage holds only keys produced by the stages
\* before it, and no key first introduced by a stage after it.
C2_SequentialVisibility ==
    \A k \in 1..Len(trace) :
        /\ Keys(trace[k].input) \subseteq ProducedBy(k - 1)
        /\ \A j \in (k + 1)..Len(trace) :
              \A x \in Keys(trace[k].input) : ~FirstIntroducedBy(x, j)

\* C2 witness: a finished run in which a stage that saw a non-empty context
\* is followed by a stage that introduces new keys
C2_Witness ==
    /\ pc = "returned"
    /\ \E k \in 1..Len(trace) : \E j \in (k + 1)..Len(trace) :
          /\ Keys(trace[k].input) # {}
          /\ \E x \in DOMAIN trace[j].output : FirstIntroducedBy(x, j)

\* C3: after a stage is merged, the context has that stage's value for every
\* key the stage sets and the previous value for every other key; so each
\* key of the context has the value of the last stage that set it.
C3_RightBiasedMerge ==
    trace # <<>> =>
        LET last == trace[Len(trace)]
        IN  /\ context.type = "dict"
            /\ \A x \in DOMAIN last.output : context.value[x] = last.output[x]
            /\ \A x \in Keys(last.input) \ DOMAIN last.output :
                  /\ x \in DOMAIN context.value
                  /\ context.value[x] = last.input.value[x]
            /\ \A x \in ProducedBy(Len(trace)) :
                  /\ x \in DOMAIN context.value
                  /\ context.value[x] = trace[LastSetter(x)].output[x]

\* C3 witness: a finished run in which two stages set the same key to
\* different values and the context holds the later one
C3_Witness ==
    /\ pc = "returned"
    /\ \E m \in 1..Len(trace) : \E n \in (m + 1)..Len(trace) :
          \E x \in DOMAIN trace[m].output \cap DOMAIN trace[n].output :
              /\ trace[m].output[x] # trace[n].output[x]
              /\ LastSetter(x) = n
              /\ context.value[x] = trace[n].output[x]

\* C4 as stated: the context is a mapping that holds the key "problem" with
\* the input text from the start of the run on, in what every stage sees
\* and at the end.
C4_SeedIsProblemMapping ==
    pc \in {"running", "returned"} =>
        /\ context.type = "dict"
        /\ "problem" \in DOMAIN context.value
        /\ context.value["problem"] = problem
        /\ \A k \in 1..Len(trace) :
              /\ trace[k].input.type = "dict"
              /\ "problem" \in DOMAIN trace[k].input.value

\* C4 amended: the context starts as the problem text itself, which is what
\* the first stage receives; after every stage it is a mapping that has all
\* the keys produced by the stages run so far; it has the key "problem" only
\* when a stage produced it.
C4_ContextSuperset ==
    pc \in {"running", "returned", "raised"} =>
        /\ trace = <<>> => (context.type = "str" /\ context.value = problem)
        /\ trace # <<>> =>
              /\ trace[1].input.type = "str"
              /\ trace[1].input.value = problem
              /\ context.type = "dict"
              /\ ProducedBy(Len(trace)) \subseteq DOMAIN context.value
              /\ "problem" \in DOMAIN context.value =>
                    "problem" \in ProducedBy(Len(trace))
        /\ \A k \in 2..Len(trace) :
              /\ trace[k].input.type = "dict"
              /\ ProducedBy(k - 1) \subseteq DOMAIN trace[k].input.value

\* C4 witness: a finished run of several stages whose final context has the
\* keys of more than one stage and no key "problem"
C4_Witness ==
    /\ pc = "returned"
    /\ Len(trace) >= 2
    /\ DOMAIN trace[1].output # DOMAIN trace[2].output
    /\ "problem" \notin Keys(context)
    /\ problem # ""

\* C5: a run always completes with a full result: a fault of a stage never
\* ends the run, and the returned mapping has an entry for every configured stage.
C5_RunAlwaysCompletes ==
    /\ pc # "raised"
    /\ pc = "returned" =>
          \A j \in 1..Len(agents) : \E r \in 1..Len(results) : results[r].name = agents[j]

\* C6: an Orchestrator exists only for a non-empty stage sequence whose
\* stage names are pairwise different.
C6_ConfigurationRejected ==
    pc \in {"idle", "running", "returned", "raised"} =>
        /\ agents # <<>>
        /\ \A a, b \in 1..Len(agents) : a # b => agents[a] # agents[b]

(***************************************************************************)
(* Properties of the agents' methods                                       *)
(***************************************************************************)
RegulatedCategories == {"payment_info", "user_profiles"}

\* the members of a list
Range(lst) == {lst[j] : j \in 1..Len(lst)}

\* the obligations implied by a data_types list, PCI-DSS first
Obligations(data_types) ==
    (IF "payment_info" \in Range(data_types) THEN <<"PCI-DSS">> ELSE <<>>)
    \o (IF "user_profiles" \in Range(data_types) THEN <<"GDPR">> ELSE <<>>)

\* the data_types of the context of the last direct call, empty when absent
CallDataTypes ==
    IF "data_types" \in DOMAIN call.input.value THEN call.input.value["data_types"] ELSE <<>>

\* C7: when data_types has no regulated category, or is absent,
\* ComplianceAgent.run emits required_compliance = ["None"] and issues no lookup.
C7_ComplianceSentinel ==
    (call.agent = "ComplianceAgent" /\ Range(CallDataTypes) \cap RegulatedCategories = {}) =>
        /\ "required_compliance" \in DOMAIN call.output
        /\ call.output.required_compliance = <<"None">>
        /\ queryLog = <<>>

\* C7 witness: ComplianceAgent.run was called with a data_types that is
\* present, not empty and without regulated category, and emitted the sentinel
C7_Witness ==
    /\ call.agent = "ComplianceAgent"
    /\ "data_types" \in DOMAIN call.input.value
    /\ CallDataTypes # <<>>
    /\ Range(CallDataTypes) \cap RegulatedCategories = {}
    /\ call.output.required_compliance = <<"None">>

\* C8: ComplianceAgent.run lists exactly the obligations implied by the
\* categories present (the sentinel when there is none), issues one lookup
\* per obligation, in order, and research_notes holds the summaries
\* returned, one per obligation, in order, none empty.
C8_ComplianceObligations ==
    call.agent = "ComplianceAgent" =>
        LET obligations == Obligations(CallDataTypes)
            out == call.output
        IN  /\ out.required_compliance =
                  IF obligations = <<>> THEN <<"None">> ELSE obligations
            /\ Len(queryLog) = Len(obligations)
            /\ Len(out.research_notes) = Len(obligations)
            /\ \A j \in 1..Len(obligations) :
                  /\ queryLog[j].topic = obligations[j]
                  /\ out.research_notes[j] = queryLog[j].result
                  /\ out.research_notes[j] = simulated_results[obligations[j]]
                  /\ out.research_notes[j] # ""

\* C8 witness: ComplianceAgent.run was called with both regulated categories
\* and emitted both obligations, each with its note
C8_Witness ==
    /\ call.agent = "ComplianceAgent"
    /\ RegulatedCategories \subseteq Range(CallDataTypes)
    /\ call.output.required_compliance = <<"PCI-DSS", "GDPR">>
    /\ Len(call.output.research_notes) = 2
    /\ Len(queryLog) = 2

\* C9: ArchitectureAgent.run selects "Serverless" exactly when constraints
\* contains low_ops, else "Containers"; issues one lookup, keyed by the
\* pattern, whose result is research_reference; compute follows the
\* pattern; security is the context's security_controls, [] when absent.
C9_ArchitecturePattern ==
    call.agent = "ArchitectureAgent" =>
        LET ctx == call.input.value
            out == call.output
            low_ops == /\ "constraints" \in DOMAIN ctx
                       /\ "low_ops" \in Range(ctx["constraints"])
        IN  /\ out.pattern = "Serverless" <=> low_ops
            /\ out.pattern = "Containers" <=> ~low_ops
            /\ Len(queryLog) = 1
            /\ queryLog[1].topic = out.pattern
            /\ out.research_reference = queryLog[1].result
            /\ out.research_reference = simulated_results[out.pattern]
            /\ out.compute = "Serverless Functions" <=> out.pattern = "Serverless"
            /\ out.compute = "Container Service" <=> out.pattern = "Containers"
            /\ "security_controls" \in DOMAIN ctx => out.security = ctx["security_controls"]
            /\ "security_controls" \notin DOMAIN ctx => out.security = <<>>

\* C9 witness: ArchitectureAgent.run was called with low_ops among the
\* constraints and security_controls present, and selected Serverless
C9_Witness ==
    /\ call.agent = "ArchitectureAgent"
    /\ "constraints" \in DOMAIN call.input.value
    /\ "low_ops" \in Range(call.input.value["constraints"])
    /\ "security_controls" \in DOMAIN call.input.value
    /\ call.output.security # <<>>
    /\ call.output.pattern = "Serverless"

\* C10: every query returns a non-empty string: the fixed entry for a known
\* topic, else a fallback that names the topic; two calls with the same
\* topic return the same string, whatever was called in between.
C10_QueryTotalDeterministic ==
    /\ \A j \in 1..Len(queryLog) :
          LET topic == queryLog[j].topic
              result == queryLog[j].result
          IN  /\ result # ""
              /\ topic \in {"PCI-DSS", "GDPR", "Serverless", "Containers"} =>
                     result = simulated_results[topic]
              /\ topic \notin {"PCI-DSS", "GDPR", "Serverless", "Containers"} =>
                     /\ Len(result) > Len(topic)
                     /\ \E t \in Topics : result = "No relevant info found for '" \o t \o "'."
                     /\ \A t \in Topics :
                            result = "No relevant info found for '" \o t \o "'." => t = topic
    /\ \A j, k \in 1..Len(queryLog) :
          queryLog[j].topic = queryLog[k].topic => queryLog[j].result = queryLog[k].result
    /\ call.agent = "ResearchAgent" =>
          call.output.value = queryLog[Len(queryLog)].result

\* C10 witness: query was called twice with the empty string and once with
\* a known topic in between
C10_Witness ==
    /\ call.agent = "ResearchAgent"
    /\ Len(queryLog) = 3
    /\ queryLog[1].topic = ""
    /\ queryLog[2].topic \in DOMAIN simulated_results
    /\ queryLog[3].topic = ""
    /\ queryLog[3].result = "No relevant info found for ''."

\* the upstream fields a review rests on: the compliance and the architecture fields
UpstreamFields == {"required_compliance", "pattern"}

\* a risk entry that says that information is insufficient
IsInsufficientInformation(risk) ==
    risk \in {"insufficient information", "Insufficient information",
              "Insufficient information (upstream fields missing)"}

\* C11: ReviewAgent.run always gives a score within 0..10 (in tenths:
\* 0..100), a risks list and a summary; and when upstream fields are missing
\* from the context, its risks include an "insufficient information" entry.
C11_ReviewInsufficientInformation ==
    call.agent = "ReviewAgent" =>
        /\ {"overall_score", "risks", "summary"} \subseteq DOMAIN call.output
        /\ call.output.overall_score \in 0..100
        /\ call.output.summary # ""
        /\ ~(UpstreamFields \subseteq DOMAIN call.input.value) =>
              \E j \in 1..Len(call.output.risks) :
                  IsInsufficientInformation(call.output.risks[j])

\* C12: within one run every configured stage completes exactly once, in
\* sequence order, each stage after the output of the one before it has
\* been merged, and the run ends only after the last stage has returned.
C12_EveryStageCompletesOnce ==
    pc \in {"running", "returned", "raised"} =>
        /\ Len(trace) = i - 1
        /\ Len(trace) <= Len(agents)
        /\ \A k \in 1..Len(trace) : trace[k].name = agents[k]
        /\ \A k \in 2..Len(trace) :
              DOMAIN trace[k - 1].output \subseteq Keys(trace[k].input)
        /\ pc \in {"returned", "raised"} => Len(trace) = Len(agents)

\* C13: the pipeline of __main__ can be constructed and run to completion:
\* the script does not end by an exception while it builds the pipeline.
C13_MainPipelineRuns == pc # "main_raised"

(***************************************************************************)
(* Properties of process_webhook_data                                      *)
(***************************************************************************)
\* invalid webhook data: no mapping, user_id or action missing, user_id not
\* a positive integer, or action not one of the three allowed
InvalidWebhook(data) ==
    \/ data.type # "dict"
    \/ "user_id" \notin DOMAIN data.value
    \/ "action" \notin DOMAIN data.value
    \/ data.value["user_id"].type # "int"
    \/ data.value["user_id"].value < 1
    \/ data.value["action"].value \notin {"create_user", "update_user", "delete_user"}

\* C14: a call with invalid data returns status "error" with message
\* "Invalid data", executes no DELETE, issues no POST and leaves the table
\* as it was.
C14_InvalidRejected ==
    (hook_result.status # "none" /\ InvalidWebhook(webhook_data)) =>
        /\ hook_result.status = "error"
        /\ hook_result.message = "Invalid data"
        /\ deletes = <<>>
        /\ posts = <<>>
        /\ user_data = before

\* C14 witness: a call with a delete_user for a row of the table whose
\* user_id is a str, and a call with a valid id and an action not allowed,
\* were rejected
C14_Witness ==
    /\ hook_result.status = "error"
    /\ webhook_data.type = "dict"
    /\ DOMAIN webhook_data.value = {"user_id", "action"}
    /\ \/ /\ webhook_data.value["user_id"].type = "str"
          /\ webhook_data.value["action"].value = "delete_user"
       \/ /\ webhook_data.value["user_id"].type = "int"
          /\ webhook_data.value["user_id"].value \in before
          /\ webhook_data.value["action"].value = "drop_table"
    /\ before # {}
    /\ user_data = before

\* C15: a call that returns status "error" leaves the table as it was.
C15_ErrorLeavesTableUnchanged ==
    hook_result.status = "error" => user_data = before

====
